---------------------------- MODULE Spec2Model ----------------------------
(* Model of src/app.py: extract_holidays (the roster scan) and             *)
(* fetch_google_events (the calendar expansion and the 'AL ref' filter).   *)
(* Text is a sequence of one-character strings, so that str.strip,         *)
(* str.lower, re.sub, the substring test and "; ".join are computed.       *)
EXTENDS Integers, Sequences, FiniteSets, TLC

VARIABLES
    rpc,                  \* extract_holidays: "call", "scan" or "done"
    target_name,          \* extract_holidays' argument
    width,                \* number of columns of df
    df,                   \* the rows df.iterrows() has yielded so far
    current_block_dates,  \* column index -> date cell
    my_booked_dates,      \* the list of leave entries
    origin,               \* history: <<row index, column index>> of each entry
    rdiag,                \* number of st.error calls made by extract_holidays
    holidays,             \* extract_holidays' return value
    cpc,                  \* fetch_google_events: "call", "get", "loop" or "done"
    url, start_range, end_range,   \* fetch_google_events' arguments
    fetches,              \* number of requests.get calls
    nevents,              \* number of events the for loop has taken
    summary, start_date, resolved_end, end_date,  \* locals of the last iteration
    events_map,           \* date -> list of summaries
    failed,               \* history: the stage that raised, or "none"
    cdiag,                \* number of st.error calls made by fetch_google_events
    result                \* fetch_google_events' return value

rvars == <<rpc, target_name, width, df, current_block_dates, my_booked_dates,
           origin, rdiag, holidays>>
cvars == <<cpc, url, start_range, end_range, fetches, nevents, summary,
           start_date, resolved_end, end_date, events_map, failed,
           cdiag, result>>
vars == <<rvars, cvars>>

--------------------------------------------------------------------------
(* Bounds of the model.                                                    *)
MaxRows == 3
MaxEvents == 2
MaxDay == 3

--------------------------------------------------------------------------
(* Text.                                                                   *)
UpperCase == <<"A","B","C","D","E","F","G","H","I","J","K","L","M",
               "N","O","P","Q","R","S","T","U","V","W","X","Y","Z">>
LowerCase == <<"a","b","c","d","e","f","g","h","i","j","k","l","m",
               "n","o","p","q","r","s","t","u","v","w","x","y","z">>
Digits == <<"0","1","2","3","4","5","6","7","8","9">>

Range(s) == {s[i] : i \in DOMAIN s}

IsSpace(ch) == ch = " "
IsDigit(ch) == ch \in Range(Digits)

LowerChar(ch) ==
    IF \E i \in DOMAIN UpperCase : UpperCase[i] = ch
    THEN LowerCase[CHOOSE i \in DOMAIN UpperCase : UpperCase[i] = ch]
    ELSE ch

\* str.lower()
Lower(s) == [i \in DOMAIN s |-> LowerChar(s[i])]

\* str.strip(): leading and trailing whitespace removed
Strip(s) ==
    LET keep == {i \in DOMAIN s : ~IsSpace(s[i])}
    IN  IF keep = {} THEN <<>>
        ELSE LET lo == CHOOSE i \in keep : \A j \in keep : i <= j
                 hi == CHOOSE i \in keep : \A j \in keep : j <= i
             IN  SubSeq(s, lo, hi)

\* x in s for strings: sub occurs in s as a contiguous run
Contains(s, sub) ==
    \E i \in 1..(Len(s) - Len(sub) + 1) : SubSeq(s, i, i + Len(sub) - 1) = sub

RECURSIVE Join(_, _)
\* sep.join(list)
Join(sep, list) ==
    IF list = <<>> THEN <<>>
    ELSE IF Len(list) = 1 THEN list[1]
    ELSE list[1] \o sep \o Join(sep, Tail(list))

\* clean_leave_type: re.sub(r'[\s\d]+', '', text)
CleanDrop(ch) == IsSpace(ch) \/ IsDigit(ch)
clean_leave_type(text) == SelectSeq(text, LAMBDA ch : ~CleanDrop(ch))

--------------------------------------------------------------------------
(* Cells of the grid that pd.read_excel(file, header=None) returns.        *)
Timestamp(d) == [k |-> "ts", v |-> d]      \* a date cell (pandas Timestamp)
NaT == [k |-> "nat", v |-> 0]               \* a missing date
NaN == [k |-> "nan", v |-> 0]               \* an empty cell
Txt(s) == [k |-> "str", v |-> s]            \* a text cell
IntCell(n) == [k |-> "int", v |-> n]        \* a whole-number cell, 0..9
FloatCell(n) == [k |-> "float", v |-> n]    \* a float cell n.0, 0..9

\* isinstance(cell, datetime.datetime): Timestamp and NaT are subclasses
IsDatetime(cell) == cell.k \in {"ts", "nat"}

\* pd.notna(cell)
NotNa(cell) == cell.k \notin {"nan", "nat"}

\* str(cell)
Str(cell) ==
    CASE cell.k = "str" -> cell.v
      [] cell.k = "nan" -> <<"n","a","n">>
      [] cell.k = "nat" -> <<"N","a","T">>
      [] cell.k = "int" -> <<Digits[cell.v + 1]>>
      [] cell.k = "float" -> <<Digits[cell.v + 1], ".", "0">>
      [] cell.k = "ts" -> <<"2","0","2","4","-","0","1","-","0",
                            Digits[cell.v + 1],
                            " ","0","0",":","0","0",":","0","0">>

\* row[c] with 0-based column labels
Cell(row, c) == row[c + 1]

EmptyBlock == [c \in {} |-> NaN]

\* the list of line 138 without its last element
PlaceholdersNoFloat == {<<>>, <<"0">>, <<"n","a","n">>, <<"N","o","n","e">>}

\* the list literal of line 138
Placeholders == {<<>>, <<"0">>, <<"n","a","n">>, <<"N","o","n","e">>,
                 <<"0",".","0">>}

\* line 132 with startswith in place of ==
NameMatchesPrefix(cell, name) ==
    LET a == Lower(Strip(Str(cell)))
        b == Lower(Strip(name))
    IN  Len(a) >= Len(b) /\ SubSeq(a, 1, Len(b)) = b

\* line 132, right operand of 'and'
NameMatches(cell, name) == Lower(Strip(Str(cell))) = Lower(Strip(name))

\* line 125 left out: the previous block is kept
ResetBlockKeep(prev) == prev

\* line 125: current_block_dates = {}
ResetBlock(prev) == EmptyBlock

\* lines 125-129: the block an anchor row opens
AnchorBlock(row, prev) ==
    LET cleared == ResetBlock(prev)
        dated == {c \in 2..(Len(row) - 1) : IsDatetime(Cell(row, c))}
    IN  [c \in (DOMAIN cleared) \cup dated |->
            IF c \in dated THEN Cell(row, c) ELSE cleared[c]]

\* lines 134-138: whether column c of the row yields an entry
Booked(row, c) ==
    /\ c < Len(row)
    /\ NotNa(Cell(row, c))
    /\ Strip(Str(Cell(row, c))) \notin Placeholders

RECURSIVE ColsFrom(_, _, _)
\* the columns of the block from c upwards that yield an entry, ascending:
\* the dict is filled by range(2, len(row)), so items() is in column order
ColsFrom(row, block, c) ==
    IF \A d \in DOMAIN block : d < c THEN <<>>
    ELSE (IF c \in DOMAIN block /\ Booked(row, c) THEN <<c>> ELSE <<>>)
         \o ColsFrom(row, block, c + 1)

Reverse(s) == [i \in DOMAIN s |-> s[Len(s) + 1 - i]]

\* line 133 iterating the block from its last column down
BookedColsDescending(row, block) == Reverse(ColsFrom(row, block, 0))

\* lines 133-138: the columns a matching row yields entries for, in order
BookedCols(row, block) == ColsFrom(row, block, 0)

\* lines 139-143
Entry(date_val, leave_code) ==
    LET code_str == Strip(Str(leave_code))
    IN  [Date |-> date_val, OriginalType |-> code_str,
         Type |-> clean_leave_type(code_str)]

\* lines 110-114: pd.read_excel succeeds and the scan starts, or it raises
ReadExcel(names, widths) ==
    /\ rpc = "call"
    /\ \/ \E t \in names, w \in widths :
            /\ target_name' = t
            /\ width' = w
            /\ rpc' = "scan"
            /\ UNCHANGED <<rdiag, holidays>>
       \/ /\ rdiag' = rdiag + 1
          /\ holidays' = <<>>
          /\ rpc' = "done"
          /\ UNCHANGED <<target_name, width>>
    /\ UNCHANGED <<df, current_block_dates, my_booked_dates, origin, cvars>>

\* lines 119-143: one iteration of 'for index, row in df.iterrows()'
ScanRow(row) ==
    /\ rpc = "scan"
    /\ Len(df) < MaxRows
    /\ Len(row) = width
    /\ df' = Append(df, row)
    /\ IF Len(row) < 3
       THEN UNCHANGED <<current_block_dates, my_booked_dates, origin>>
       ELSE IF IsDatetime(Cell(row, 2))
       THEN /\ current_block_dates' = AnchorBlock(row, current_block_dates)
            /\ UNCHANGED <<my_booked_dates, origin>>
       ELSE IF DOMAIN current_block_dates # {}
               /\ NameMatches(Cell(row, 1), target_name)
       THEN LET cols == BookedCols(row, current_block_dates)
            IN  /\ my_booked_dates' = my_booked_dates \o
                      [i \in DOMAIN cols |->
                          Entry(current_block_dates[cols[i]], Cell(row, cols[i]))]
                /\ origin' = origin \o [i \in DOMAIN cols |-> <<Len(df), cols[i]>>]
                /\ UNCHANGED current_block_dates
       ELSE UNCHANGED <<current_block_dates, my_booked_dates, origin>>
    /\ UNCHANGED <<rpc, target_name, width, rdiag, holidays, cvars>>

\* line 144: the rows are exhausted
ReturnHolidays ==
    /\ rpc = "scan"
    /\ holidays' = my_booked_dates
    /\ rpc' = "done"
    /\ UNCHANGED <<target_name, width, df, current_block_dates,
                   my_booked_dates, origin, rdiag, cvars>>

--------------------------------------------------------------------------
(* Sample inputs of extract_holidays.                                      *)
Smith == <<"S","m","i","t","h">>
TargetNames == {<<"s","m","i","t","h"," ">>}
NameCells == {Txt(<<" ">> \o Smith), Txt(Smith \o <<"s">>)}
Widths == {2, 4}
AL1 == <<" ","A","L","1">>
CoreCells == {Timestamp(1), Timestamp(2), Txt(AL1)}
CodeCells == {Timestamp(1), NaT, NaN, IntCell(0), IntCell(7), FloatCell(0),
              Txt(<<>>), Txt(<<" ">>), Txt(<<"0">>), Txt(<<" ","0"," ">>),
              Txt(<<"n","a","n">>), Txt(<<"N","o","n","e">>),
              Txt(<<"0",".","0">>), Txt(AL1)}

RECURSIVE Tuples(_, _)
Tuples(n, cells) ==
    IF n = 0 THEN {<<>>}
    ELSE {<<c>> \o t : c \in cells, t \in Tuples(n - 1, cells)}

\* column 0 is unused, column 1 holds the name, columns 2.. hold the cells
RowsOver(w, cells) ==
    IF w < 2 THEN {}
    ELSE {<<NaN, n>> \o t : n \in NameCells, t \in Tuples(w - 2, cells)}

CoreRows == RowsOver(width, CoreCells)

\* a header row, then one row over every kind of cell, then rows as above
CodeRows ==
    IF df = <<>> THEN IF width < 4 THEN CoreRows
                      ELSE {<<NaN, NaN, Timestamp(1), Timestamp(2)>>}
    ELSE IF Len(df) = 1 THEN RowsOver(width, CodeCells)
    ELSE CoreRows

--------------------------------------------------------------------------
(* fetch_google_events. A date is its day number; a DTSTART or DTEND value *)
(* is a date or a datetime; an absent property is the empty sequence.      *)
ADate(d) == [k |-> "date", d |-> d, h |-> 0]
ADatetime(d, h) == [k |-> "datetime", d |-> d, h |-> h]

\* lines 61-64 and 69-72: dt.date() of a datetime, the date itself otherwise
DateOf(dt) == IF dt.k = "datetime" THEN ADate(dt.d).d ELSE dt.d

Busy == <<"B","u","s","y">>
Marker == <<"a","l"," ","r","e","f">>

\* line 57: str(event.get('SUMMARY', 'Busy'))
SummaryOf(event) == IF event.SUMMARY = <<>> THEN Busy ELSE event.SUMMARY[1]

\* lines 66-74
ResolveEnd(event, start) ==
    IF event.DTEND # <<>> THEN DateOf(event.DTEND[1]) ELSE start + 1

\* lines 77-78
SafeEnd(start, end) == IF start = end THEN start + 1 ELSE end

EmptyMap == [d \in {} |-> <<>>]

\* lines 83-84 without the membership test
AddSummaryAlways(bucket, text) == Append(bucket, text)

\* lines 83-84
AddSummary(bucket, text) ==
    IF text \in Range(bucket) THEN bucket ELSE Append(bucket, text)

\* lines 82-86
AddToDay(map, day, text) ==
    IF day \in DOMAIN map
    THEN [map EXCEPT ![day] = AddSummary(map[day], text)]
    ELSE [d \in (DOMAIN map) \cup {day} |->
             IF d = day THEN <<text>> ELSE map[d]]

\* line 81 with <= in place of <
InLoopInclusive(cur, end) == cur <= end

\* line 81: the loop condition
InLoop(cur, end) == cur < end

RECURSIVE ExpandDays(_, _, _, _)
\* lines 80-88: the while loop from current_curr on
ExpandDays(map, text, cur, end) ==
    IF InLoop(cur, end)
    THEN ExpandDays(AddToDay(map, cur, text), text, cur + 1, end)
    ELSE map

\* line 94
HasMarker(text) == Contains(Lower(text), Marker)

\* lines 94-101 without the filter
FinalTextAll(summary_list) == Join(<<";", " ">>, summary_list)

\* lines 94-101
FinalText(summary_list) ==
    LET al_ref_events == SelectSeq(summary_list, HasMarker)
    IN  IF al_ref_events # <<>>
        THEN Join(<<";", " ">>, al_ref_events)
        ELSE Join(<<";", " ">>, summary_list)

\* lines 91-103
FinalMap(map) == [d \in DOMAIN map |-> FinalText(map[d])]

\* line 107 returning what was collected so far
HandlerResultPartial(map) == FinalMap(map)

\* line 107: return {}
HandlerResult(map) == EmptyMap

\* lines 105-107: the except clause
Raise(stage) ==
    /\ failed' = stage
    /\ cdiag' = cdiag + 1
    /\ result' = HandlerResult(events_map)
    /\ cpc' = "done"

\* line 52: recurring_ical_events.of(calendar).between(lo, hi) yields the
\* occurrences that overlap the window (an event object is handed on as is)
Admitted(event, lo, hi) ==
    IF event.DTSTART = <<>> THEN TRUE
    ELSE LET s == DateOf(event.DTSTART[1])
             e == ResolveEnd(event, s)
             stop == IF e > s THEN e ELSE s + 1
         IN  s <= hi /\ stop > lo

\* lines 42-44
CallFetch(urls, windows) ==
    /\ cpc = "call"
    /\ \E u \in urls, w \in windows :
          /\ url' = u
          /\ start_range' = w[1]
          /\ end_range' = w[2]
          /\ IF u = ""
             THEN /\ result' = EmptyMap
                  /\ cpc' = "done"
             ELSE /\ cpc' = "get"
                  /\ UNCHANGED result
    /\ UNCHANGED <<fetches, nevents, summary, start_date, resolved_end,
                   end_date, events_map, failed, cdiag, rvars>>

\* lines 47-54: fetch, status check, parse, expansion
Load ==
    /\ cpc = "get"
    /\ fetches' = fetches + 1
    /\ \/ /\ events_map' = EmptyMap
          /\ cpc' = "loop"
          /\ UNCHANGED <<failed, cdiag, result>>
       \/ /\ \E stage \in {"get", "status", "parse", "expand"} : Raise(stage)
          /\ UNCHANGED events_map
    /\ UNCHANGED <<url, start_range, end_range, nevents, summary, start_date,
                   resolved_end, end_date, rvars>>

\* lines 56-88: one iteration of 'for event in events'
ProcessEvent(event) ==
    /\ cpc = "loop"
    /\ nevents < MaxEvents
    /\ Admitted(event, start_range, end_range)
    /\ nevents' = nevents + 1
    /\ summary' = SummaryOf(event)
    /\ IF event.DTSTART = <<>>
       THEN /\ Raise("event")
            /\ UNCHANGED <<start_date, resolved_end, end_date, events_map>>
       ELSE LET s == DateOf(event.DTSTART[1])
                e == ResolveEnd(event, s)
            IN  /\ start_date' = s
                /\ resolved_end' = e
                /\ end_date' = SafeEnd(s, e)
                /\ events_map' = ExpandDays(events_map, SummaryOf(event), s,
                                            SafeEnd(s, e))
                /\ UNCHANGED <<failed, cdiag, result, cpc>>
    /\ UNCHANGED <<url, start_range, end_range, fetches, rvars>>

\* lines 90-103
ReturnMap ==
    /\ cpc = "loop"
    /\ result' = FinalMap(events_map)
    /\ cpc' = "done"
    /\ UNCHANGED <<url, start_range, end_range, fetches, nevents, summary,
                   start_date, resolved_end, end_date, events_map, failed,
                   cdiag, rvars>>

--------------------------------------------------------------------------
(* Sample inputs of fetch_google_events.                                   *)
Days == 0..MaxDay
Urls == {"", "https://calendar/basic.ics"}
Windows == {<<1, 1>>, <<1, 2>>}
ALref == <<"A","L"," ","r","e","f">>
TripAlRef == <<"T","r","i","p"," ","a","l"," ","R","E","F">>
Gym == <<"G","y","m">>
Summaries == {<<>>, <<ALref>>, <<TripAlRef>>, <<Gym>>}
Stamps == {ADate(d) : d \in Days} \cup {ADatetime(d, 9) : d \in Days}
Events ==
    {[SUMMARY |-> t, DTSTART |-> s, DTEND |-> e] :
        t \in Summaries,
        s \in {<<>>} \cup {<<x>> : x \in Stamps},
        e \in {<<>>} \cup {<<x>> : x \in Stamps}}

--------------------------------------------------------------------------
Init ==
    /\ rpc = "call"
    /\ target_name = <<>>
    /\ width = 0
    /\ df = <<>>
    /\ current_block_dates = EmptyBlock
    /\ my_booked_dates = <<>>
    /\ origin = <<>>
    /\ rdiag = 0
    /\ holidays = <<>>
    /\ cpc = "call"
    /\ url = ""
    /\ start_range = 0
    /\ end_range = 0
    /\ fetches = 0
    /\ nevents = 0
    /\ summary = <<>>
    /\ start_date = 0
    /\ resolved_end = 0
    /\ end_date = 0
    /\ events_map = EmptyMap
    /\ failed = "none"
    /\ cdiag = 0
    /\ result = EmptyMap

NextRoster ==
    \/ ReadExcel(TargetNames, Widths)
    \/ \E row \in CoreRows : ScanRow(row)
    \/ ReturnHolidays

NextCodes ==
    \/ ReadExcel(TargetNames, Widths)
    \/ \E row \in CodeRows : ScanRow(row)
    \/ ReturnHolidays

NextCal ==
    \/ CallFetch(Urls, Windows)
    \/ Load
    \/ \E event \in Events : ProcessEvent(event)
    \/ ReturnMap

SpecRoster == Init /\ [][NextRoster]_vars

SpecCodes == Init /\ [][NextCodes]_vars

SpecCal == Init /\ [][NextCal]_vars

--------------------------------------------------------------------------
(* Properties of extract_holidays.                                         *)

\* a row with at least 3 cells whose column-2 cell is date-typed
RowIsAnchor(row) == Len(row) >= 3 /\ IsDatetime(Cell(row, 2))

\* the 0-based indices of the anchor rows before row r
AnchorsBefore(r) == {a \in 0..(r - 1) : RowIsAnchor(df[a + 1])}

LastAnchorBefore(r) ==
    CHOOSE a \in AnchorsBefore(r) : \A b \in AnchorsBefore(r) : b <= a

NameEqualsTarget(row) ==
    Lower(Strip(Str(Cell(row, 1)))) = Lower(Strip(target_name))

ReservedCodes == {<<>>, <<"0">>, <<"n","a","n">>, <<"N","o","n","e">>,
                  <<"0",".","0">>}

\* the cells that are to yield an entry: in a matching data row under an
\* open block, in a date column of the block, neither missing nor reserved
QualifyingCells ==
    {rc \in (0..(Len(df) - 1)) \X (2..(width - 1)) :
        LET row == df[rc[1] + 1]
        IN  /\ ~RowIsAnchor(row)
            /\ NameEqualsTarget(row)
            /\ AnchorsBefore(rc[1]) # {}
            /\ IsDatetime(Cell(df[LastAnchorBefore(rc[1]) + 1], rc[2]))
            /\ NotNa(Cell(row, rc[2]))
            /\ Strip(Str(Cell(row, rc[2]))) \notin ReservedCodes}

\* C1: every leave entry read from column c of row r carries the date that
\* the most recent anchor row before r holds in column c, never a date of
\* an earlier anchor row.
C1_DateOfLatestAnchor ==
    \A i \in DOMAIN my_booked_dates :
        LET r == origin[i][1]
            c == origin[i][2]
        IN  /\ AnchorsBefore(r) # {}
            /\ LET anchor == df[LastAnchorBefore(r) + 1]
               IN  /\ c < Len(anchor)
                   /\ IsDatetime(Cell(anchor, c))
                   /\ my_booked_dates[i].Date = Cell(anchor, c)

\* an entry under the second of two anchor rows that disagree in its column
C1_Witness ==
    \E i \in DOMAIN my_booked_dates :
        LET r == origin[i][1]
            c == origin[i][2]
        IN  \E a \in AnchorsBefore(r) :
                /\ a < LastAnchorBefore(r)
                /\ IsDatetime(Cell(df[a + 1], c))
                /\ Cell(df[a + 1], c) # Cell(df[LastAnchorBefore(r) + 1], c)

\* C6: no entry comes from a cell that is missing or whose trimmed text is
\* "", "0", "nan", "None" or "0.0"; every other cell of a matching data row
\* in a column of the active block yields exactly one entry, whose original
\* code is the trimmed text.
C6_PlaceholdersYieldNothing ==
    /\ \A i \in DOMAIN my_booked_dates :
          LET cell == Cell(df[origin[i][1] + 1], origin[i][2])
          IN  /\ NotNa(cell)
              /\ Strip(Str(cell)) \notin ReservedCodes
              /\ my_booked_dates[i].OriginalType = Strip(Str(cell))
    /\ \A rc \in QualifyingCells :
          Cardinality({i \in DOMAIN origin : origin[i] = rc}) = 1

\* a matching data row with a reserved cell, a missing cell or both in the
\* block's columns has been scanned, and another cell has yielded an entry
C6_Witness ==
    /\ my_booked_dates # <<>>
    /\ \E r \in 0..(Len(df) - 1) :
          LET row == df[r + 1]
          IN  /\ Len(row) >= 4
              /\ ~RowIsAnchor(row)
              /\ NameEqualsTarget(row)
              /\ AnchorsBefore(r) # {}
              /\ Cell(row, 2) \in {FloatCell(0), Txt(<<" ","0"," ">>)}
              /\ <<r, 3>> \in Range(origin)

\* C9: a row contributes entries only if it has at least 3 cells, its
\* column-2 cell is not date-typed, an anchor row precedes it and its name
\* cell, trimmed and lower-cased, equals the trimmed, lower-cased target; a
\* grid of rows shorter than 3 cells opens no block and yields nothing.
C9_OnlyMatchingDataRows ==
    /\ \A i \in DOMAIN my_booked_dates :
          LET r == origin[i][1]
              row == df[r + 1]
          IN  /\ Len(row) >= 3
              /\ ~IsDatetime(Cell(row, 2))
              /\ AnchorsBefore(r) # {}
              /\ NameEqualsTarget(row)
    /\ width < 3 =>
          /\ DOMAIN current_block_dates = {}
          /\ my_booked_dates = <<>>

\* a matching row before the first anchor, an anchor row whose name cell
\* matches, then a matching data row: only the last one has contributed
C9_Witness ==
    /\ Len(df) = 3
    /\ \A r \in 1..3 : NameEqualsTarget(df[r])
    /\ ~RowIsAnchor(df[1])
    /\ RowIsAnchor(df[2])
    /\ ~RowIsAnchor(df[3])
    /\ my_booked_dates # <<>>
    /\ \A i \in DOMAIN origin : origin[i][1] = 2

LexLess(a, b) == a[1] < b[1] \/ (a[1] = b[1] /\ a[2] < b[2])

\* C10: the entries are in insertion order, by row and within a row by
\* ascending column, and none is dropped as a duplicate: there are as many
\* entries as qualifying cells.
C10_InsertionOrder ==
    /\ \A i, j \in DOMAIN origin : i < j => LexLess(origin[i], origin[j])
    /\ Len(my_booked_dates) = Cardinality(QualifyingCells)
    /\ rpc = "done" /\ rdiag = 0 => holidays = my_booked_dates

\* two matching rows under one block with the same code in the same column
\* have yielded two equal entries, and one row has yielded two columns
C10_Witness ==
    /\ rpc = "done"
    /\ \E i, j \in DOMAIN holidays :
          /\ i < j
          /\ holidays[i] = holidays[j]
          /\ origin[i][1] < origin[j][1]
    /\ \E i, j \in DOMAIN holidays :
          /\ origin[i][1] = origin[j][1]
          /\ origin[i][2] < origin[j][2]

--------------------------------------------------------------------------
(* Properties of fetch_google_events.                                      *)

\* the summary contains "al ref" in any case
MatchesMarker(text) ==
    \E i \in 1..(Len(text) - Len(Marker) + 1) :
        \A j \in DOMAIN Marker : LowerChar(text[i + j - 1]) = Marker[j]

\* the call has returned the map built from events_map
Returned == cpc = "done" /\ url # "" /\ failed = "none"

\* the number of places at which sub occurs in text
Occurrences(sub, text) ==
    Cardinality({i \in 1..(Len(text) - Len(sub) + 1) :
                    SubSeq(text, i, i + Len(sub) - 1) = sub})

\* C2: for every day of the returned map, the display text is the "; "-join
\* of the summaries that contain "al ref" (any case) when there is one, and
\* the "; "-join of all the day's summaries otherwise.
C2_MarkerFilter ==
    Returned =>
        /\ DOMAIN result = DOMAIN events_map
        /\ \A d \in DOMAIN events_map :
              LET matching == SelectSeq(events_map[d], MatchesMarker)
              IN  result[d] = IF matching # <<>>
                              THEN Join(<<";", " ">>, matching)
                              ELSE Join(<<";", " ">>, events_map[d])

\* a returned day whose bucket holds a matching and a non-matching summary
C2_Witness ==
    /\ Returned
    /\ \E d \in DOMAIN events_map :
          /\ \E i \in DOMAIN events_map[d] : MatchesMarker(events_map[d][i])
          /\ \E i \in DOMAIN events_map[d] : ~MatchesMarker(events_map[d][i])
          /\ Len(result[d]) < Len(Join(<<";", " ">>, events_map[d]))

\* the bucket of day d in a map, empty when the day has no key
Bucket(map, d) == IF d \in DOMAIN map THEN map[d] ELSE <<>>

\* C3: an occurrence with resolved start s and resolved end e has its
\* summary put in the bucket of exactly the days s <= d < e when s < e
\* (never e itself) and of exactly the day s when s = e.
C3_CoveredDays ==
    [][(nevents' = nevents + 1 /\ failed' = "none"
            /\ start_date' <= resolved_end') =>
        LET s == start_date'
            e == resolved_end'
            covered == IF s = e THEN {s} ELSE s..(e - 1)
        IN  \A d \in covered \cup DOMAIN events_map \cup DOMAIN events_map' :
                IF d \in covered
                THEN /\ d \in DOMAIN events_map'
                     /\ summary' \in Range(events_map'[d])
                     /\ \/ events_map'[d] = Bucket(events_map, d)
                        \/ events_map'[d] =
                              Append(Bucket(events_map, d), summary')
                ELSE /\ d \in DOMAIN events_map
                     /\ events_map'[d] = events_map[d]]_vars

\* the first event spans three days: its summary is on each, not on the end
C3_Witness ==
    /\ cpc = "loop"
    /\ nevents = 1
    /\ resolved_end = start_date + 3
    /\ DOMAIN events_map = start_date..(resolved_end - 1)
    /\ \A d \in DOMAIN events_map : events_map[d] = <<summary>>

\* C4 as stated: no bucket holds a summary twice, and every summary of a
\* day's bucket occurs exactly once in the day's display text.
C4_OnceInDisplayText ==
    /\ \A d \in DOMAIN events_map :
          \A i, j \in DOMAIN events_map[d] :
              events_map[d][i] = events_map[d][j] => i = j
    /\ Returned =>
          \A d \in DOMAIN events_map :
              \A i \in DOMAIN events_map[d] :
                  Occurrences(events_map[d][i], result[d]) = 1

\* C4 as amended: no bucket holds a summary twice; in the display text a
\* summary of the bucket occurs at most once, and exactly once unless the
\* marker filter drops it (it lacks the marker and another summary of the
\* day has it).
C4_NoDuplicateSummary ==
    /\ \A d \in DOMAIN events_map :
          \A i, j \in DOMAIN events_map[d] :
              events_map[d][i] = events_map[d][j] => i = j
    /\ Returned =>
          \A d \in DOMAIN events_map :
              \A i \in DOMAIN events_map[d] :
                  LET text == events_map[d][i]
                      dropped ==
                          /\ ~MatchesMarker(text)
                          /\ \E j \in DOMAIN events_map[d] :
                                MatchesMarker(events_map[d][j])
                  IN  Occurrences(text, result[d]) = IF dropped THEN 0 ELSE 1

\* two events with the same summary have both covered day 1: the first one
\* days 0 to 2, the second one day 1 alone, and each bucket holds it once
C4_Witness ==
    /\ Returned
    /\ nevents = 2
    /\ start_date = 1
    /\ end_date = 2
    /\ DOMAIN events_map = {0, 1, 2}
    /\ \A d \in DOMAIN events_map : events_map[d] = <<summary>>
    /\ result[1] = summary

\* C5: with an empty URL the call returns the empty map without a fetch and
\* without a diagnostic; a failure of the fetch, the status check, the
\* parse, the expansion or an event's processing is reported by exactly one
\* diagnostic and the empty map is returned, whatever was collected before.
C5_FailsGracefully ==
    cpc = "done" =>
        /\ url = "" => result = EmptyMap /\ cdiag = 0 /\ fetches = 0
        /\ failed # "none" => result = EmptyMap /\ cdiag = 1
        /\ failed = "none" => cdiag = 0

\* the second event raised after the first one had filled a bucket
C5_Witness ==
    /\ cpc = "done"
    /\ failed = "event"
    /\ nevents = 2
    /\ DOMAIN events_map # {}
    /\ result = EmptyMap
    /\ cdiag = 1

\* C7 as stated: every date key of the returned map lies in the window
\* [start_range, end_range].
C7_KeysInWindow ==
    cpc = "done" =>
        \A d \in DOMAIN result : start_range <= d /\ d <= end_range

\* C8 as stated: every occurrence that has been processed, whatever its
\* resolved start and end, has its summary in the bucket of at least one day.
C8_AtLeastOneDay ==
    (cpc = "loop" /\ nevents > 0) =>
        \E d \in DOMAIN events_map : summary \in Range(events_map[d])

==========================================================================
